---- MODULE Spec2Model ----
(***************************************************************************)
(* State-machine model of the two App components of                        *)
(* subtitle_frontend/src/App.js:                                           *)
(*   - the /reposition/subtitles variant (lines 24-572): callRepositionAPI,*)
(*     downloadRepositionedSRT, resetState, the file inputs;               *)
(*   - the /reposition variant (lines 600-825): handleSubmit, cancelUpload,*)
(*     onPickVideo, onPickSubtitle, Clear, simulateProgress timers.        *)
(* One behaviour runs one of the two components (variant, fixed by Init).  *)
(*                                                                         *)
(* A step is one run-to-completion piece of JavaScript: an event handler   *)
(* up to its first await, or the continuation of an async function from    *)
(* one await to the next (or to its end).  React applies the setState      *)
(* calls of one such piece together, so the state between two pieces is    *)
(* the state after the last setter of each variable.                       *)
(*                                                                         *)
(* JavaScript strings are sequences of string chunks: a file name is its   *)
(* sequence of characters, a template literal is the concatenation of its  *)
(* pieces, '' is << >>.  null (a file, a URL, a ref) is << >> as well; no  *)
(* file name, URL or controller of the model is empty.                     *)
(***************************************************************************)
EXTENDS Integers, Sequences, FiniteSets, Bags, TLC

\* ------------------------------------------------------------------ bounds
\* Handler invocations (submit / reposition / download) per behaviour.
MaxActions == 2
\* Ticks of simulateProgress timers per behaviour under Spec.
MaxTicks == 1
\* Largest video currentTime reported by onTimeUpdate.
MaxTime == 2
\* Submits per behaviour under SpecTimers, where every interval runs to its end.
MaxSubmits == 1

\* ------------------------------------------------------------ JS strings
null == << >>

Str(s) == << s >>

UpperCase == <<"A","B","C","D","E","F","G","H","I","J","K","L","M",
               "N","O","P","Q","R","S","T","U","V","W","X","Y","Z">>
LowerCase == <<"a","b","c","d","e","f","g","h","i","j","k","l","m",
               "n","o","p","q","r","s","t","u","v","w","x","y","z">>

\* The lower-case letter of each upper-case letter.
LowerOf ==
  [c \in { UpperCase[k] : k \in DOMAIN UpperCase } |->
     LowerCase[CHOOSE k \in DOMAIN UpperCase : UpperCase[k] = c]]

\* String.prototype.toLowerCase, character by character.
toLowerCase(s) ==
  [i \in DOMAIN s |-> IF s[i] \in DOMAIN LowerOf THEN LowerOf[s[i]] ELSE s[i]]

\* String.prototype.endsWith
endsWith(s, suffix) ==
  /\ Len(suffix) <= Len(s)
  /\ SubSeq(s, Len(s) - Len(suffix) + 1, Len(s)) = suffix

\* String.prototype.lastIndexOf for a one-character needle, 0-based, -1 if absent.
lastIndexOf(s, ch) ==
  IF \E i \in DOMAIN s : s[i] = ch
  THEN (CHOOSE i \in DOMAIN s : s[i] = ch /\ \A j \in DOMAIN s : s[j] = ch => j <= i) - 1
  ELSE -1

\* String.prototype.substring(from) with a 0-based start.
substring(s, from) == SubSeq(s, from + 1, Len(s))

\* String.prototype.indexOf for a string needle, 0-based, -1 if absent.
indexOf(s, pat) ==
  LET hits == { i \in 1..(Len(s) - Len(pat) + 1) : SubSeq(s, i, i + Len(pat) - 1) = pat }
  IN IF hits = {} THEN -1
     ELSE (CHOOSE i \in hits : \A j \in hits : i <= j) - 1

\* String.prototype.replace(pat, by) with a string pattern: the first occurrence.
replace(s, pat, by) ==
  LET at == indexOf(s, pat)
  IN IF at < 0 THEN s
     ELSE SubSeq(s, 1, at) \o by \o SubSeq(s, at + Len(pat) + 1, Len(s))

\* Array.prototype.join over an array of strings.
RECURSIVE join(_, _)
join(arr, sep) ==
  IF Len(arr) = 0 THEN << >>
  ELSE IF Len(arr) = 1 THEN arr[1]
  ELSE arr[1] \o sep \o join(Tail(arr), sep)

\* a || b on strings: '' is falsy.
OrElse(a, b) == IF a # << >> THEN a ELSE b

\* -------------------------------------------------------- program constants
SUPPORTED_SUB_EXTENSIONS ==
  << <<".","s","r","t">>, <<".","a","s","s">>, <<".","s","s","a">>, <<".","v","t","t">> >>

\* const steps = 15 of simulateProgress
steps == 15

\* ------------------------------------------------------------ input domains
VideoNames == { <<"m",".","m","p","4">> }
\* One supported name (upper-case extension) and two unsupported ones (another
\* extension; the letters of an extension without the dot).
SupportedNames == { <<"a",".","S","R","T">> }
UnsupportedNames == { <<"c",".","t","x","t">>, <<"s","r","t">> }
SubtitleNames == SupportedNames \cup UnsupportedNames
\* Subtitle files offered to the /reposition/subtitles component, which does not
\* look at the name.
SrtNames == { <<"a",".","S","R","T">> }

\* Response.ok: status in the range 200-299.
ok(code) == code >= 200 /\ code <= 299

\* HTTP status codes the backend may answer with.
Codes == {200, 500}
\* Response bodies read as text.
Bodies == { << >>, Str("oops") }
\* message of a rejection that is not an abort (TypeError: Failed to fetch, ...).
ErrorMessages == { << >>, Str("Failed to fetch") }

\* Cue records {start, end, text, position} and the arrays the backend may send.
Cue1 == [start |-> 0, end |-> 1, text |-> "hi", position |-> "top"]
Cue2 == [start |-> 1, end |-> 2, text |-> "yo", position |-> "bottom"]
CueLists == { << >>, <<Cue2, Cue1>>, <<Cue1>> }

\* Parsed JSON bodies: null, or an object whose 'cues' is absent, a string or an array.
JsonBodies ==
  { [isNull |-> TRUE, cuesTag |-> "undefined", cues |-> << >>],
    [isNull |-> FALSE, cuesTag |-> "undefined", cues |-> << >>],
    [isNull |-> FALSE, cuesTag |-> "string", cues |-> << >>] }
  \cup { [isNull |-> FALSE, cuesTag |-> "array", cues |-> cs] : cs \in CueLists }

\* No parsed body (before the response, and for bodies that are not JSON).
NoJson == [isNull |-> TRUE, cuesTag |-> "undefined", cues |-> << >>]

\* The responses the backend may give: status, and the body as text (read by
\* resp.text() of a non-OK response) or as the value resp.json() parses it to.
Response(code, text, json) == [code |-> code, text |-> text, json |-> json]
ErrorResponses == { Response(code, b, NoJson) : code \in {c \in Codes : ~ok(c)}, b \in Bodies }
\* POST /reposition and /reposition/subtitles/download: a file, or an error.
FileResponses ==
  { Response(code, << >>, NoJson) : code \in {c \in Codes : ok(c)} } \cup ErrorResponses
\* POST /reposition/subtitles: JSON, or an error.
JsonResponses ==
  { Response(code, << >>, j) : code \in {c \in Codes : ok(c)}, j \in JsonBodies }
  \cup ErrorResponses

\* Array.isArray(data.cues)
ArrayIsArray(data) == data.cuesTag = "array"

VARIABLES
  variant,            \* "reposition" | "subtitles": which App component runs
  videoFile,          \* useState(null): name of the selected video, or null
  subtitleFile,       \* useState(null): name of the selected subtitle file, or null
  status,             \* useState('idle') / useState('Idle')
  message,            \* /reposition: message
  progress,           \* useState(0)
  downloadUrl,        \* /reposition: object URL of the result, or null
  resultFilename,     \* /reposition: download file name
  abortControllerRef, \* /reposition: <<i>> = the controller of request i, or null
  objectUrls,         \* browser: the object URLs created and not revoked
  abortedSignals,     \* browser: the requests whose controller's abort() was called
  timers,             \* browser: bag of running simulateProgress intervals
  error,              \* /reposition/subtitles: error text
  cues,               \* /reposition/subtitles: cues from the backend
  isProcessing,       \* /reposition/subtitles
  backendBaseUrl,     \* /reposition/subtitles
  currentTime,        \* /reposition/subtitles: video playback time
  reqs,               \* the fetches issued so far, in order, with each one's position
  nActions,           \* handler invocations so far (submit, reposition, download)
  nTicks,             \* timer ticks so far
  viaUI,              \* every handler so far was invoked through an enabled control
  statusSeen          \* the status values held so far

vars == << variant, videoFile, subtitleFile, status, message, progress, downloadUrl,
           resultFilename, abortControllerRef, objectUrls, abortedSignals, timers, error, cues,
           isProcessing, backendBaseUrl, currentTime, reqs, nActions, nTicks, viaUI,
           statusSeen >>

\* Variables of the /reposition component only.
repositionVars == << message, downloadUrl, resultFilename, abortControllerRef,
                     objectUrls, abortedSignals, timers, nTicks >>
\* Variables of the /reposition/subtitles component only.
subtitlesVars == << error, cues, isProcessing, backendBaseUrl, currentTime >>

DefaultResultFilename == Str("repositioned_subtitles.srt")


Max(a, b) == IF a >= b THEN a ELSE b
Min(a, b) == IF a <= b THEN a ELSE b

\* The object URL URL.createObjectURL returns for the blob of request i.
BlobUrl(i) == <<"blob:", ToString(i)>>

\* A fetch issued by a handler.  pc is the await the async function is suspended at:
\*   "fetch" (await fetch), "text" (await resp.text()), "blob" (await resp.blob()),
\*   "json" (await resp.json()), "done" (the function returned).
\* video / subtitle are the files appended to the FormData; code, text and json are
\* the response resp (0, '' and no JSON before it); outcome says how the function
\* ended.
NewRequest(kind) ==
  [kind |-> kind, pc |-> "fetch", video |-> videoFile, subtitle |-> subtitleFile,
   code |-> 0, text |-> << >>, json |-> NoJson, outcome |-> "none"]

Pending(i) == i \in DOMAIN reqs /\ reqs[i].pc # "done"
PendingRequests == { i \in DOMAIN reqs : reqs[i].pc # "done" }

\* The function of request i returns: its closure (resp, resp.status) is gone.
Finish(i, outcome) ==
  [reqs EXCEPT ![i].pc = "done", ![i].code = 0, ![i].text = << >>, ![i].json = NoJson,
               ![i].outcome = outcome]

\* await fetch resolved with resp: request i goes on to the await at pc.
Resolved(i, resp, pc) ==
  [reqs EXCEPT ![i].pc = pc, ![i].code = resp.code, ![i].text = resp.text,
               ![i].json = resp.json]

\* ===================================================== /reposition component

SupportedList == join(SUPPORTED_SUB_EXTENSIONS, Str(", "))

MsgUnsupportedPick == Str("Unsupported subtitle format. Supported: ") \o SupportedList
MsgSelectVideo == Str("Please select a video file.")
MsgSelectSubtitle == Str("Please select a subtitle file (") \o SupportedList \o Str(").")
MsgUnsupported ==
  Str("Unsupported subtitle format. Supported: ") \o SupportedList \o Str(".")
MsgValidating == Str("Validating files...")
MsgUploading == Str("Uploading files to backend...")
MsgProcessing == Str("Processing on server...")
MsgSuccess == Str("Success! Your repositioned subtitle file is ready.")
MsgCanceled == Str("Upload canceled.")
MsgWentWrong == Str("Something went wrong while contacting the backend.")
MsgRequestFailed(code) == Str("Request failed with status ") \o Str(ToString(code))

\* Mutant of isSupported: the extensions compared without their dot.
isSupported_noDot(name) ==
  \E k \in DOMAIN SUPPORTED_SUB_EXTENSIONS :
    endsWith(toLowerCase(name), Tail(SUPPORTED_SUB_EXTENSIONS[k]))

\* SUPPORTED_SUB_EXTENSIONS.some(ext => name.toLowerCase().endsWith(ext))
isSupported(name) ==
  \E k \in DOMAIN SUPPORTED_SUB_EXTENSIONS :
    endsWith(toLowerCase(name), SUPPORTED_SUB_EXTENSIONS[k])

\* onPickVideo: file is e.target.files?.[0], null when the dialog gave no file.
onPickVideo(file) ==
  /\ variant = "reposition"
  /\ videoFile' = IF file # null THEN file ELSE videoFile
  /\ UNCHANGED << variant, subtitleFile, status, message, progress, downloadUrl,
                  resultFilename, abortControllerRef, objectUrls, timers, reqs,
                  nActions, nTicks, viaUI, statusSeen >>
  /\ UNCHANGED subtitlesVars
  /\ UNCHANGED abortedSignals

\* onPickSubtitle: an unsupported name sets status and message and returns.
onPickSubtitle(file) ==
  /\ variant = "reposition"
  /\ IF file = null
     THEN UNCHANGED << subtitleFile, status, message >>
     ELSE IF ~isSupported(file)
     THEN /\ status' = "error"
          /\ message' = MsgUnsupportedPick
          /\ UNCHANGED subtitleFile
     ELSE /\ subtitleFile' = file
          /\ UNCHANGED << status, message >>
  /\ statusSeen' = statusSeen \cup {status'}
  /\ UNCHANGED << variant, videoFile, progress, downloadUrl, resultFilename,
                  abortControllerRef, objectUrls, timers, reqs, nActions, nTicks, viaUI >>
  /\ UNCHANGED subtitlesVars
  /\ UNCHANGED abortedSignals

\* inferResultFilename, of the subtitle file selected when handleSubmit runs.
inferResultFilename ==
  IF subtitleFile = null THEN DefaultResultFilename
  ELSE LET name == subtitleFile
           dot == lastIndexOf(name, ".")
           ext == IF dot >= 0 THEN substring(name, dot) ELSE <<".","s","r","t">>
       IN replace(name, ext, Str(".repositioned") \o ext)

\* resetResult: the object URLs left after revoking the current downloadUrl.
resetResult_objectUrls ==
  IF downloadUrl # null THEN objectUrls \ {downloadUrl} ELSE objectUrls

\* Mutant of validateInputs: the video presence check is missing.
validateInputs_noVideoCheck ==
  IF subtitleFile = null
  THEN [valid |-> FALSE, status |-> "error", message |-> MsgSelectSubtitle]
  ELSE IF ~isSupported(subtitleFile)
  THEN [valid |-> FALSE, status |-> "error", message |-> MsgUnsupported]
  ELSE [valid |-> TRUE, status |-> status, message |-> message]

\* validateInputs of the /reposition component: whether the inputs are valid, and
\* the status and message it leaves.
validateInputs ==
  IF videoFile = null
  THEN [valid |-> FALSE, status |-> "error", message |-> MsgSelectVideo]
  ELSE IF subtitleFile = null
  THEN [valid |-> FALSE, status |-> "error", message |-> MsgSelectSubtitle]
  ELSE IF ~isSupported(subtitleFile)
  THEN [valid |-> FALSE, status |-> "error", message |-> MsgUnsupported]
  ELSE [valid |-> TRUE, status |-> status, message |-> message]

\* const allowSubmit: the submit button is enabled.
allowSubmit ==
  /\ videoFile # null
  /\ subtitleFile # null
  /\ status # "uploading"
  /\ status # "processing"

\* UploadCard: const uploading, which shows the Cancel button.
uploading == status = "uploading" \/ status = "processing"

\* simulateProgress(from, to, durationMs): setProgress(prev => Math.max(prev, from)) ...
simulateProgress_progress(prev, from) == Max(prev, from)
\* ... and setInterval: a timer that has fired count times.
simulateProgress_timer(from, to, durationMs) ==
  [from |-> from, to |-> to, durationMs |-> durationMs, count |-> 0]

StartTimer(bag, from, to, durationMs) ==
  bag (+) SetToBag({simulateProgress_timer(from, to, durationMs)})

\* Of the setters one step calls on a variable, the last one decides its value.
LastSet(writes) == writes[Len(writes)]

\* Mutant of handleSubmit_statusWrites: setStatus('uploading') is missing.
handleSubmit_statusWrites_validatingOnly == << "validating" >>

\* The setStatus calls of a valid handleSubmit before its await:
\* setStatus('validating'), then setStatus('uploading').
handleSubmit_statusWrites == << "validating", "uploading" >>

\* Likewise setMessage('Validating files...'), setMessage('Uploading files ...').
handleSubmit_messageWrites == << MsgValidating, MsgUploading >>

\* handleSubmit up to its first await (await fetch): resetResult, setProgress(0),
\* validateInputs, then 'validating' overwritten by 'uploading' in the same step,
\* a new AbortController, simulateProgress(10, 60, 800) and the fetch.
\* It runs from the enabled submit button, or directly (it is a public interface)
\* while a file is missing, which is the case validateInputs guards against.
handleSubmit ==
  /\ variant = "reposition"
  /\ nActions < MaxActions
  /\ allowSubmit \/ videoFile = null \/ subtitleFile = null
  /\ nActions' = nActions + 1
  /\ viaUI' = (viaUI /\ allowSubmit)
  /\ downloadUrl' = null
  /\ objectUrls' = resetResult_objectUrls
  /\ LET v == validateInputs
         i == Len(reqs) + 1
     IN IF ~v.valid
        THEN /\ status' = v.status
             /\ message' = v.message
             /\ progress' = 0
             /\ resultFilename' = DefaultResultFilename
             /\ UNCHANGED << abortControllerRef, timers, reqs >>
        ELSE /\ status' = LastSet(handleSubmit_statusWrites)
             /\ message' = LastSet(handleSubmit_messageWrites)
             /\ resultFilename' = inferResultFilename
             /\ abortControllerRef' = << i >>
             /\ progress' = simulateProgress_progress(0, 10)
             /\ timers' = StartTimer(timers, 10, 60, 800)
             /\ reqs' = Append(reqs, NewRequest("submit"))
  /\ statusSeen' = statusSeen \cup {status'}
  /\ UNCHANGED << variant, videoFile, subtitleFile, nTicks >>
  /\ UNCHANGED subtitlesVars
  /\ UNCHANGED abortedSignals

\* Mutant of handleSubmit_catch: the catch block fetches again.
handleSubmit_catch_retries(i, errName, errMessage) ==
  /\ status' = "error"
  /\ message' = IF errName = "AbortError" THEN MsgCanceled
                ELSE OrElse(errMessage, MsgWentWrong)
  /\ progress' = 0
  /\ abortControllerRef' = null
  /\ reqs' = Append(Finish(i, "error"), NewRequest("submit"))
  /\ statusSeen' = statusSeen \cup {"error"}

\* The catch and finally blocks of handleSubmit, for request i and the thrown error.
handleSubmit_catch(i, errName, errMessage) ==
  /\ status' = "error"
  /\ message' = IF errName = "AbortError" THEN MsgCanceled
                ELSE OrElse(errMessage, MsgWentWrong)
  /\ progress' = 0
  /\ abortControllerRef' = null
  /\ reqs' = Finish(i, IF errName = "AbortError" THEN "canceled" ELSE "error")
  /\ statusSeen' = statusSeen \cup {"error"}

\* Mutant of handleSubmit_notOkMessage: the body text is not used.
handleSubmit_notOkMessage_dropsBody(text, code) == MsgRequestFailed(code)

\* The error thrown on a non-OK response whose body read gave text.
handleSubmit_notOkMessage(text, code) == OrElse(text, MsgRequestFailed(code))

\* await fetch resolves with the response resp.
handleSubmit_fetchResolved(i, resp) ==
  /\ variant = "reposition"
  /\ Pending(i) /\ reqs[i].pc = "fetch"
  /\ IF ~ok(resp.code)
     THEN /\ reqs' = Resolved(i, resp, "text")
          /\ UNCHANGED << status, message, progress, timers, statusSeen >>
     ELSE /\ status' = "processing"
          /\ message' = MsgProcessing
          /\ progress' = simulateProgress_progress(progress, 60)
          /\ timers' = StartTimer(timers, 60, 90, 600)
          /\ reqs' = Resolved(i, resp, "blob")
          /\ statusSeen' = statusSeen \cup {"processing"}
  /\ UNCHANGED << variant, videoFile, subtitleFile, downloadUrl, resultFilename,
                  abortControllerRef, objectUrls, nActions, nTicks, viaUI >>
  /\ UNCHANGED subtitlesVars
  /\ UNCHANGED abortedSignals

\* await fetch rejects (network failure; an abort is part of cancelUpload).
handleSubmit_fetchRejected(i, errMessage) ==
  /\ variant = "reposition"
  /\ Pending(i) /\ reqs[i].pc = "fetch"
  /\ handleSubmit_catch(i, "TypeError", errMessage)
  /\ UNCHANGED << variant, videoFile, subtitleFile, downloadUrl, resultFilename,
                  objectUrls, timers, nActions, nTicks, viaUI >>
  /\ UNCHANGED subtitlesVars
  /\ UNCHANGED abortedSignals

\* await safeReadText(resp) returns: the body text, or '' when resp.text() rejected
\* (readable = FALSE); then throw new Error(text || `Request failed ...`).
handleSubmit_textRead(i, readable) ==
  /\ variant = "reposition"
  /\ Pending(i) /\ reqs[i].pc = "text"
  /\ handleSubmit_catch(i, "Error",
        handleSubmit_notOkMessage(IF readable THEN reqs[i].text ELSE << >>,
                                  reqs[i].code))
  /\ UNCHANGED << variant, videoFile, subtitleFile, downloadUrl, resultFilename,
                  objectUrls, timers, nActions, nTicks, viaUI >>
  /\ UNCHANGED subtitlesVars
  /\ UNCHANGED abortedSignals

\* await resp.blob() resolves: simulateProgress(90, 100, 200), the object URL,
\* 'success', setProgress(100); finally.
handleSubmit_blobRead(i) ==
  /\ variant = "reposition"
  /\ Pending(i) /\ reqs[i].pc = "blob"
  /\ timers' = StartTimer(timers, 90, 100, 200)
  /\ objectUrls' = objectUrls \cup {BlobUrl(i)}
  /\ downloadUrl' = BlobUrl(i)
  /\ status' = "success"
  /\ message' = MsgSuccess
  /\ progress' = 100
  /\ abortControllerRef' = null
  /\ reqs' = Finish(i, "download")
  /\ statusSeen' = statusSeen \cup {"success"}
  /\ UNCHANGED << variant, videoFile, subtitleFile, resultFilename, nActions, nTicks,
                  viaUI >>
  /\ UNCHANGED subtitlesVars
  /\ UNCHANGED abortedSignals

\* await resp.blob() rejects (the connection drops while the body is read).
handleSubmit_blobRejected(i, errMessage) ==
  /\ variant = "reposition"
  /\ Pending(i) /\ reqs[i].pc = "blob"
  /\ handleSubmit_catch(i, "TypeError", errMessage)
  /\ UNCHANGED << variant, videoFile, subtitleFile, downloadUrl, resultFilename,
                  objectUrls, timers, nActions, nTicks, viaUI >>
  /\ UNCHANGED subtitlesVars
  /\ UNCHANGED abortedSignals

\* The request whose controller abortControllerRef.current holds.
RefRequest == abortControllerRef[1]

\* cancelUpload: abort() on the current controller.  The aborted fetch or blob read
\* rejects with an AbortError; an aborted resp.text() rejects inside safeReadText,
\* which returns ''.  The rejection's continuation runs before any other event.
\* It runs from the Cancel button, which is rendered while `uploading`.
cancelUpload ==
  /\ variant = "reposition"
  /\ uploading
  /\ abortedSignals' = IF abortControllerRef = null THEN abortedSignals
                       ELSE abortedSignals \cup {RefRequest}
  /\ IF abortControllerRef = null
     THEN UNCHANGED << status, message, progress, abortControllerRef, reqs, statusSeen >>
     ELSE IF reqs[RefRequest].pc = "text"
     THEN handleSubmit_catch(RefRequest, "Error",
             handleSubmit_notOkMessage(<< >>, reqs[RefRequest].code))
     ELSE handleSubmit_catch(RefRequest, "AbortError", << >>)
  /\ UNCHANGED << variant, videoFile, subtitleFile, downloadUrl, resultFilename,
                  objectUrls, timers, nActions, nTicks, viaUI >>
  /\ UNCHANGED subtitlesVars

\* Mutant of onClear: setStatus('idle') is missing.
onClear_keepsStatus ==
  /\ variant = "reposition"
  /\ downloadUrl # null
  /\ downloadUrl' = null
  /\ objectUrls' = resetResult_objectUrls
  /\ resultFilename' = DefaultResultFilename
  /\ message' = << >>
  /\ UNCHANGED << variant, videoFile, subtitleFile, status, progress,
                  abortControllerRef, timers, reqs, nActions, nTicks, viaUI,
                  statusSeen >>
  /\ UNCHANGED subtitlesVars
  /\ UNCHANGED abortedSignals

\* ResultCard's Clear button (rendered only with a downloadUrl): resetResult,
\* setMessage(''), setStatus('idle').
onClear ==
  /\ variant = "reposition"
  /\ downloadUrl # null
  /\ downloadUrl' = null
  /\ objectUrls' = resetResult_objectUrls
  /\ resultFilename' = DefaultResultFilename
  /\ message' = << >>
  /\ status' = "idle"
  /\ statusSeen' = statusSeen \cup {"idle"}
  /\ UNCHANGED << variant, videoFile, subtitleFile, progress, abortControllerRef,
                  timers, reqs, nActions, nTicks, viaUI >>
  /\ UNCHANGED subtitlesVars
  /\ UNCHANGED abortedSignals

\* Math.round(current) after count increments of (to - from) / steps from `from`.
timerCurrent(t, count) ==
  (2 * (steps * t.from + count * (t.to - t.from)) + steps) \div (2 * steps)

\* setProgress(p => Math.min(Math.max(p, Math.round(current)), to))
timerProgress(p, t, count) == Min(Max(p, timerCurrent(t, count)), t.to)

\* Mutant of timerAfter: clearInterval is missing.
timerAfter_neverClears(t, count) ==
  (timers (-) SetToBag({t})) (+) SetToBag({[t EXCEPT !.count = count]})

\* The timers after timer t fired for the count-th time: clearInterval at steps.
timerAfter(t, count) ==
  IF count >= steps
  THEN timers (-) SetToBag({t})
  ELSE (timers (-) SetToBag({t})) (+) SetToBag({[t EXCEPT !.count = count]})

\* One firing of a simulateProgress interval.
timerTick(t, maxTicks) ==
  /\ variant = "reposition"
  /\ BagIn(t, timers)
  /\ nTicks < maxTicks
  /\ nTicks' = nTicks + 1
  /\ progress' = timerProgress(progress, t, t.count + 1)
  /\ timers' = timerAfter(t, t.count + 1)
  /\ UNCHANGED << variant, videoFile, subtitleFile, status, message, downloadUrl,
                  resultFilename, abortControllerRef, objectUrls, reqs, nActions,
                  viaUI, statusSeen >>
  /\ UNCHANGED subtitlesVars
  /\ UNCHANGED abortedSignals


\* ============================================= /reposition/subtitles component

ErrSelectVideo == Str("Please select a video file.")
ErrSelectSubtitle == Str("Please select a subtitle file (SRT).")
ErrNoBackend == Str("Backend URL is not configured.")
ErrUnexpectedFormat == Str("Unexpected response format from backend.")
ErrProcessFallback == Str("Failed to process files.")
ErrDownloadFallback == Str("Failed to download repositioned subtitles.")
ErrBackend(code, text) ==
  Str("Backend error (") \o Str(ToString(code)) \o Str("): ") \o text

\* The base URL the mount effect computes, or '' when it cannot.
DefaultBackendUrl == Str("http://localhost:3001")

\* handleVideoChange: setVideoFile(e.target.files?.[0] || null)
handleVideoChange(file) ==
  /\ variant = "subtitles"
  /\ videoFile' = file
  /\ UNCHANGED << variant, subtitleFile, status, progress, reqs, nActions, viaUI,
                  statusSeen >>
  /\ UNCHANGED subtitlesVars
  /\ UNCHANGED abortedSignals
  /\ UNCHANGED repositionVars

\* handleSubChange: setSubtitleFile(e.target.files?.[0] || null)
handleSubChange(file) ==
  /\ variant = "subtitles"
  /\ subtitleFile' = file
  /\ UNCHANGED << variant, videoFile, status, progress, reqs, nActions, viaUI,
                  statusSeen >>
  /\ UNCHANGED subtitlesVars
  /\ UNCHANGED abortedSignals
  /\ UNCHANGED repositionVars

\* onTimeUpdate of the <video>, which is rendered only with a video selected.
onTimeUpdate(t) ==
  /\ variant = "subtitles"
  /\ videoFile # null
  /\ currentTime' = t
  /\ UNCHANGED << variant, videoFile, subtitleFile, status, progress, reqs, nActions,
                  viaUI, statusSeen >>
  /\ UNCHANGED << error, cues, isProcessing, backendBaseUrl >>
  /\ UNCHANGED repositionVars

\* activeCues: cues.filter(c => currentTime >= c.start && currentTime <= c.end)
activeCues ==
  IF Len(cues) = 0 THEN << >>
  ELSE LET during(c) == currentTime >= c.start /\ currentTime <= c.end
       IN SelectSeq(cues, during)

\* The Reset button: resetState(); setCues([]).
resetState ==
  /\ variant = "subtitles"
  /\ cues' = << >>
  /\ status' = "Idle"
  /\ progress' = 0
  /\ error' = << >>
  /\ statusSeen' = statusSeen \cup {"Idle"}
  /\ UNCHANGED << variant, videoFile, subtitleFile, reqs, nActions, viaUI >>
  /\ UNCHANGED << isProcessing, backendBaseUrl, currentTime >>
  /\ UNCHANGED repositionVars

\* validateInputs of the /reposition/subtitles component: whether the inputs are
\* valid, and the error text it leaves.
validateInputs_subtitles ==
  IF videoFile = null THEN [valid |-> FALSE, error |-> ErrSelectVideo]
  ELSE IF subtitleFile = null THEN [valid |-> FALSE, error |-> ErrSelectSubtitle]
  ELSE [valid |-> TRUE, error |-> << >>]

\* Mutant of buttonsEnabled: isProcessing does not disable the buttons.
buttonsEnabled_ignoresProcessing == videoFile # null /\ subtitleFile # null

\* disabled={isProcessing || !videoFile || !subtitleFile}, negated: both action
\* buttons are enabled.
buttonsEnabled == ~isProcessing /\ videoFile # null /\ subtitleFile # null

\* The start of callRepositionAPI / downloadRepositionedSRT up to await fetch.
\* It runs from its enabled button, or directly (both are public interfaces) while
\* a file is missing, which is the case validateInputs guards against.
StartCall(kind, startStatus, startProgress) ==
  /\ variant = "subtitles"
  /\ nActions < MaxActions
  /\ buttonsEnabled \/ videoFile = null \/ subtitleFile = null
  /\ nActions' = nActions + 1
  /\ viaUI' = (viaUI /\ buttonsEnabled)
  /\ LET v == validateInputs_subtitles
     IN IF ~v.valid
        THEN /\ error' = v.error
             /\ UNCHANGED << isProcessing, status, progress, reqs >>
        ELSE IF backendBaseUrl = << >>
        THEN /\ error' = ErrNoBackend
             /\ UNCHANGED << isProcessing, status, progress, reqs >>
        ELSE /\ error' = v.error
             /\ isProcessing' = TRUE
             /\ status' = startStatus
             /\ progress' = startProgress
             /\ reqs' = Append(reqs, NewRequest(kind))
  /\ statusSeen' = statusSeen \cup {status'}
  /\ UNCHANGED << variant, videoFile, subtitleFile >>
  /\ UNCHANGED << cues, backendBaseUrl, currentTime >>
  /\ UNCHANGED repositionVars

callRepositionAPI == StartCall("reposition", "Uploading...", 10)

downloadRepositionedSRT == StartCall("download", "Requesting download...", 30)

\* Mutant of CallCatch: e.message is stored without its fallback text.
CallCatch_noFallback(i, errMessage) ==
  /\ error' = errMessage
  /\ status' = "Error"
  /\ isProcessing' = FALSE
  /\ reqs' = Finish(i, "error")
  /\ statusSeen' = statusSeen \cup {"Error"}

\* Mutant of CallCatch: the finally block (setIsProcessing(false)) is missing.
CallCatch_noFinally(i, errMessage) ==
  /\ error' = OrElse(errMessage,
                     IF reqs[i].kind = "reposition" THEN ErrProcessFallback
                     ELSE ErrDownloadFallback)
  /\ status' = "Error"
  /\ UNCHANGED isProcessing
  /\ reqs' = Finish(i, "error")
  /\ statusSeen' = statusSeen \cup {"Error"}

\* The catch and finally blocks of both functions, for call i and the thrown message.
CallCatch(i, errMessage) ==
  /\ error' = OrElse(errMessage,
                     IF reqs[i].kind = "reposition" THEN ErrProcessFallback
                     ELSE ErrDownloadFallback)
  /\ status' = "Error"
  /\ isProcessing' = FALSE
  /\ reqs' = Finish(i, "error")
  /\ statusSeen' = statusSeen \cup {"Error"}

\* What a call's continuation never writes.
CallFrame ==
  /\ UNCHANGED << variant, videoFile, subtitleFile, nActions, viaUI >>
  /\ UNCHANGED << backendBaseUrl, currentTime >>
  /\ UNCHANGED repositionVars

\* callRepositionAPI: await fetch resolves; 'Processing...', 50, then the ok test.
callRepositionAPI_fetchResolved(i, resp) ==
  /\ variant = "subtitles"
  /\ Pending(i) /\ reqs[i].kind = "reposition" /\ reqs[i].pc = "fetch"
  /\ status' = "Processing..."
  /\ progress' = 50
  /\ reqs' = Resolved(i, resp, IF ok(resp.code) THEN "json" ELSE "text")
  /\ statusSeen' = statusSeen \cup {"Processing..."}
  /\ UNCHANGED << error, cues, isProcessing >>
  /\ CallFrame

\* downloadRepositionedSRT: await fetch resolves; the ok test.
downloadRepositionedSRT_fetchResolved(i, resp) ==
  /\ variant = "subtitles"
  /\ Pending(i) /\ reqs[i].kind = "download" /\ reqs[i].pc = "fetch"
  /\ reqs' = Resolved(i, resp, IF ok(resp.code) THEN "blob" ELSE "text")
  /\ UNCHANGED << status, progress, statusSeen, error, cues, isProcessing >>
  /\ CallFrame

\* await resp.text() of a non-OK response resolves: throw new Error(`Backend error ...`).
Call_textRead(i) ==
  /\ variant = "subtitles"
  /\ Pending(i) /\ reqs[i].pc = "text"
  /\ CallCatch(i, ErrBackend(reqs[i].code, reqs[i].text))
  /\ UNCHANGED << progress, cues >>
  /\ CallFrame

\* Any await of either function rejects (fetch, resp.text(), resp.json(), resp.blob()).
Call_rejected(i, errMessage) ==
  /\ variant = "subtitles"
  /\ Pending(i)
  /\ CallCatch(i, errMessage)
  /\ UNCHANGED << progress, cues >>
  /\ CallFrame

\* Mutant of storedCues: the array is stored in reverse order.
storedCues_reversed(data) ==
  [k \in 1..Len(data.cues) |-> data.cues[Len(data.cues) + 1 - k]]

\* setCues(data.cues): the array stored.
storedCues(data) == data.cues

\* callRepositionAPI: await resp.json() resolves with data, the parsed body.
callRepositionAPI_jsonRead(i) ==
  /\ variant = "subtitles"
  /\ Pending(i) /\ reqs[i].pc = "json"
  /\ IF reqs[i].json.isNull \/ ~ArrayIsArray(reqs[i].json)
     THEN /\ CallCatch(i, ErrUnexpectedFormat)
          /\ UNCHANGED << progress, cues >>
     ELSE /\ cues' = storedCues(reqs[i].json)
          /\ status' = "Done"
          /\ progress' = 100
          /\ isProcessing' = FALSE
          /\ reqs' = Finish(i, "cues")
          /\ statusSeen' = statusSeen \cup {"Done"}
          /\ UNCHANGED error
  /\ CallFrame

\* downloadRepositionedSRT: await resp.blob() resolves; the object URL is created,
\* clicked and revoked in the same step; 'Downloaded', 100.
downloadRepositionedSRT_blobRead(i) ==
  /\ variant = "subtitles"
  /\ Pending(i) /\ reqs[i].pc = "blob"
  /\ status' = "Downloaded"
  /\ progress' = 100
  /\ isProcessing' = FALSE
  /\ reqs' = Finish(i, "download")
  /\ statusSeen' = statusSeen \cup {"Downloaded"}
  /\ UNCHANGED << error, cues >>
  /\ CallFrame

\* ============================================================ specification

Init ==
  /\ variant \in {"reposition", "subtitles"}
  /\ videoFile = null
  /\ subtitleFile = null
  /\ status = IF variant = "reposition" THEN "idle" ELSE "Idle"
  /\ message = << >>
  /\ progress = 0
  /\ downloadUrl = null
  /\ resultFilename = DefaultResultFilename
  /\ abortControllerRef = null
  /\ objectUrls = {}
  /\ abortedSignals = {}
  /\ timers = EmptyBag
  /\ error = << >>
  /\ cues = << >>
  /\ isProcessing = FALSE
  /\ backendBaseUrl \in IF variant = "subtitles" THEN {DefaultBackendUrl, << >>}
                        ELSE {<< >>}
  /\ currentTime = 0
  /\ reqs = << >>
  /\ nActions = 0
  /\ nTicks = 0
  /\ viaUI = TRUE
  /\ statusSeen = {status}

Requests == 1..MaxActions

Next ==
  \/ \E file \in VideoNames \cup {null} : onPickVideo(file)
  \/ \E file \in SubtitleNames \cup {null} : onPickSubtitle(file)
  \/ handleSubmit
  \/ \E i \in Requests, resp \in FileResponses : handleSubmit_fetchResolved(i, resp)
  \/ \E i \in Requests, m \in ErrorMessages : handleSubmit_fetchRejected(i, m)
  \/ \E i \in Requests, readable \in BOOLEAN : handleSubmit_textRead(i, readable)
  \/ \E i \in Requests : handleSubmit_blobRead(i)
  \/ \E i \in Requests, m \in ErrorMessages : handleSubmit_blobRejected(i, m)
  \/ cancelUpload
  \/ onClear
  \/ \E t \in BagToSet(timers) : timerTick(t, MaxTicks)
  \/ \E file \in VideoNames \cup {null} : handleVideoChange(file)
  \/ \E file \in SrtNames \cup {null} : handleSubChange(file)
  \/ \E t \in 0..MaxTime : onTimeUpdate(t)
  \/ resetState
  \/ callRepositionAPI
  \/ downloadRepositionedSRT
  \/ \E i \in Requests, resp \in JsonResponses : callRepositionAPI_fetchResolved(i, resp)
  \/ \E i \in Requests, resp \in FileResponses :
       downloadRepositionedSRT_fetchResolved(i, resp)
  \/ \E i \in Requests : Call_textRead(i)
  \/ \E i \in Requests, m \in ErrorMessages : Call_rejected(i, m)
  \/ \E i \in Requests : callRepositionAPI_jsonRead(i)
  \/ \E i \in Requests : downloadRepositionedSRT_blobRead(i)

Spec == Init /\ [][Next]_vars

\* The awaited promise of request i settles and the continuation of its async
\* function runs: the fetch resolves or rejects, the body read resolves or rejects.
Settles(i) ==
  \/ \E resp \in FileResponses : handleSubmit_fetchResolved(i, resp)
  \/ \E m \in ErrorMessages : handleSubmit_fetchRejected(i, m)
  \/ \E readable \in BOOLEAN : handleSubmit_textRead(i, readable)
  \/ handleSubmit_blobRead(i)
  \/ \E m \in ErrorMessages : handleSubmit_blobRejected(i, m)
  \/ \E resp \in JsonResponses : callRepositionAPI_fetchResolved(i, resp)
  \/ \E resp \in FileResponses : downloadRepositionedSRT_fetchResolved(i, resp)
  \/ Call_textRead(i)
  \/ \E m \in ErrorMessages : Call_rejected(i, m)
  \/ callRepositionAPI_jsonRead(i)
  \/ downloadRepositionedSRT_blobRead(i)

\* Spec with the network settling every call: each awaited promise of a pending
\* request eventually resolves or rejects, and the event loop then runs the
\* continuation.
SpecSettles == Init /\ [][Next]_vars /\ \A i \in Requests : WF_vars(Settles(i))

\* ------------------------------------------- the /reposition component's timers
\* The /reposition component driven through its controls only, with its
\* simulateProgress intervals running to their end.

InitTimers == Init /\ variant = "reposition"

\* More ticks than the three intervals of each submit can fire.
TickLimit == 3 * steps * MaxSubmits + 1

\* setInterval: some running interval fires.
TimerFires == \E t \in BagToSet(timers) : timerTick(t, TickLimit)

\* The form's submit event, which the enabled submit button raises.
SubmitClicked == nActions < MaxSubmits /\ allowSubmit /\ handleSubmit

NextTimers ==
  \/ \E file \in VideoNames \cup {null} : onPickVideo(file)
  \/ \E file \in SubtitleNames \cup {null} : onPickSubtitle(file)
  \/ SubmitClicked
  \/ \E i \in Requests, resp \in FileResponses : handleSubmit_fetchResolved(i, resp)
  \/ \E i \in Requests, m \in ErrorMessages : handleSubmit_fetchRejected(i, m)
  \/ \E i \in Requests, readable \in BOOLEAN : handleSubmit_textRead(i, readable)
  \/ \E i \in Requests : handleSubmit_blobRead(i)
  \/ \E i \in Requests, m \in ErrorMessages : handleSubmit_blobRejected(i, m)
  \/ cancelUpload
  \/ onClear
  \/ TimerFires

\* setInterval keeps firing a running interval until clearInterval.
SpecTimers == InitTimers /\ [][NextTimers]_vars /\ WF_vars(TimerFires)


\* ==================================================================== claims

\* C1: in the /reposition component at most one request is in flight at any time,
\* under every interleaving of the UI's events (file picks, submit, cancel, clear)
\* with the responses.
C1_SingleInFlight ==
  (variant = "reposition" /\ viaUI) => Cardinality(PendingRequests) <= 1


\* A step that runs handleSubmit, callRepositionAPI or downloadRepositionedSRT.
HandlerStep == nActions' = nActions + 1

\* A step that issues a fetch.
IssuesRequest == Len(reqs') > Len(reqs)

\* C2: in both components no request is issued unless a video and a subtitle file
\* are selected when the handler runs; with either missing the handler ends with
\* the matching 'Please select ...' text and issues no request.
C2_PresenceChecks ==
  [][ /\ IssuesRequest =>
           /\ videoFile # null /\ subtitleFile # null
           /\ reqs'[Len(reqs')].video = videoFile
           /\ reqs'[Len(reqs')].subtitle = subtitleFile
      /\ (HandlerStep /\ videoFile = null) =>
           /\ ~IssuesRequest
           /\ variant = "reposition" =>
                status' = "error" /\ message' = Str("Please select a video file.")
           /\ variant = "subtitles" => error' = Str("Please select a video file.")
      /\ (HandlerStep /\ videoFile # null /\ subtitleFile = null) =>
           /\ ~IssuesRequest
           /\ variant = "reposition" =>
                /\ status' = "error"
                /\ message' = << "Please select a subtitle file (" >> \o SupportedList
                                \o << ")." >>
           /\ variant = "subtitles" =>
                error' = Str("Please select a subtitle file (SRT).")
    ]_vars

\* C2 witness: handleSubmit ran with a subtitle file and no video, and left the
\* 'Please select a video file.' message and no request.
C2_Witness ==
  /\ variant = "reposition"
  /\ nActions = 1
  /\ videoFile = null
  /\ subtitleFile # null
  /\ status = "error"
  /\ message = Str("Please select a video file.")
  /\ reqs = << >>

\* C3: in the /reposition component, cancelUpload while a request of handleSubmit
\* is pending ends that submit with status 'error', message 'Upload canceled.' and
\* progress 0, and the request produces no download URL and no 'success'.
C3_CancelEndsSubmit ==
  [][ (variant = "reposition" /\ viaUI /\ cancelUpload /\ PendingRequests # {}) =>
        /\ status' = "error"
        /\ message' = Str("Upload canceled.")
        /\ progress' = 0
        /\ \A i \in PendingRequests :
             reqs'[i].pc = "done" /\ reqs'[i].outcome = "canceled"
    ]_vars

FiveStatusValues == {"idle", "uploading", "processing", "success", "error"}

SevenStatusValues ==
  {"Idle", "Uploading...", "Processing...", "Done", "Error",
   "Requesting download...", "Downloaded"}

\* C4 as stated: in each component the status takes at most five distinct values.
C4_AtMostFiveValues == Cardinality(statusSeen) <= 5

\* C4 amended: the status of the /reposition component takes at most the five
\* values idle, uploading, processing, success, error; that of the
\* /reposition/subtitles component takes up to seven.
C4_StatusValues ==
  /\ variant = "reposition" => (status \in FiveStatusValues /\ statusSeen \subseteq FiveStatusValues)
  /\ variant = "subtitles" => (status \in SevenStatusValues /\ statusSeen \subseteq SevenStatusValues)

\* C4 witness: the /reposition component has held all five values.
C4_Witness == variant = "reposition" /\ statusSeen = FiveStatusValues

\* Request i ends, in this step, the body read of a non-OK response.
EndsNotOk(i) == i \in DOMAIN reqs /\ reqs[i].pc = "text" /\ reqs'[i].pc = "done"

RequestFailedText(i) == << "Request failed with status ", ToString(reqs[i].code) >>

BackendErrorText(i) ==
  << "Backend error (", ToString(reqs[i].code), "): " >> \o reqs[i].text

C6_NoRetry ==
  /\ [](Len(reqs) <= nActions)
  /\ [][ Len(reqs') - Len(reqs) <= nActions' - nActions /\ Len(reqs') >= Len(reqs) ]_vars

\* C6 witness: the only request failed and nothing was issued after it.
C6_Witness ==
  /\ Len(reqs) = 1 /\ reqs[1].outcome = "error"
  /\ nActions = 1
  /\ status \in {"error", "Error"}

\* Request i ends, in this step, with its cues stored.
StoresCues(i) ==
  i \in DOMAIN reqs /\ reqs[i].pc = "json" /\ reqs'[i].outcome = "cues"

\* C7: in the /reposition/subtitles component, after an OK response whose JSON has
\* an array 'cues' the stored cues are that array, element for element, and only
\* Reset or another such response changes them afterwards.
C7_CuesVerbatim ==
  [][ variant = "subtitles" =>
        /\ \A i \in Requests :
             StoresCues(i) =>
               /\ Len(cues') = Len(reqs[i].json.cues)
               /\ \A k \in 1..Len(cues') : cues'[k] = reqs[i].json.cues[k]
        /\ cues' # cues =>
             \/ \E i \in Requests : StoresCues(i)
             \/ resetState
    ]_vars

\* C7 witness: two cues are stored in the order received and one of them is active.
C7_Witness ==
  /\ variant = "subtitles"
  /\ cues = << Cue2, Cue1 >>
  /\ \E i \in DOMAIN reqs : reqs[i].outcome = "cues"
  /\ currentTime = 2
  /\ activeCues = << Cue2 >>

\* The name ends, ignoring case, in .srt, .ass, .ssa or .vtt.
HasSupportedExtension(name) ==
  /\ Len(name) >= 4
  /\ toLowerCase(SubSeq(name, Len(name) - 3, Len(name))) \in
       { <<".","s","r","t">>, <<".","a","s","s">>, <<".","s","s","a">>,
         <<".","v","t","t">> }

\* C8: in the /reposition component the selected subtitle file, when present, has a
\* supported extension, and so has the subtitle file of every request; picking a
\* file with another extension sets status 'error' and the 'Unsupported subtitle
\* format' message and leaves the selection unchanged.
C8_SupportedSubtitle ==
  /\ [](variant = "reposition" =>
          /\ subtitleFile # null => HasSupportedExtension(subtitleFile)
          /\ \A i \in DOMAIN reqs : HasSupportedExtension(reqs[i].subtitle))
  /\ [][ \A f \in { n \in SubtitleNames : ~HasSupportedExtension(n) } :
           onPickSubtitle(f) =>
             /\ subtitleFile' = subtitleFile
             /\ status' = "error"
             /\ message' = << "Unsupported subtitle format. Supported: " >> \o SupportedList
       ]_vars

\* C8 witness: an unsupported pick was refused while a supported file is selected
\* and carried by a request.
C8_Witness ==
  /\ variant = "reposition"
  /\ subtitleFile \in SupportedNames
  /\ status = "error"
  /\ message = MsgUnsupportedPick
  /\ Len(reqs) = 1 /\ reqs[1].subtitle = subtitleFile

\* C9: in the /reposition component, whenever status is 'success' the download URL
\* is present (non-null, and not revoked).
C9_SuccessHasDownload ==
  (variant = "reposition" /\ status = "success") =>
    (downloadUrl # null /\ downloadUrl \in objectUrls)

\* C9 witness: a second submit succeeded after the first one's result.
C9_Witness ==
  /\ variant = "reposition"
  /\ status = "success"
  /\ Len(reqs) = 2 /\ reqs[1].outcome = "download"
  /\ downloadUrl = BlobUrl(2)

\* C10: in the /reposition component status 'processing' is entered only from
\* 'uploading', and 'success' only from 'processing'.
C10_StatusOrder ==
  [][ (variant = "reposition" /\ viaUI) =>
        /\ (status' = "processing" /\ status # "processing") => status = "uploading"
        /\ (status' = "success" /\ status # "success") => status = "processing"
    ]_vars

\* The status names an operation in progress.
InProgressStatus ==
  status \in {"uploading", "processing",
              "Uploading...", "Processing...", "Requesting download..."}

\* Request i ends in this step: its async function returns.
Ends(i) == i \in DOMAIN reqs /\ reqs[i].pc # "done" /\ reqs'[i].pc = "done"

\* C11: provided the network settles every call, every request started reaches a
\* terminal outcome: the step that ends a handleSubmit leaves status 'success' or
\* 'error' and abortControllerRef null; the step that ends callRepositionAPI or
\* downloadRepositionedSRT leaves isProcessing false and status 'Done',
\* 'Downloaded' or 'Error'; and again and again no request is pending, the status
\* is not an in-progress one and isProcessing is false, so that no request and no
\* in-progress status lasts forever.
C11_Terminates ==
  /\ []<>(PendingRequests = {} /\ ~InProgressStatus /\ ~isProcessing)
  /\ [][ \A i \in Requests :
           Ends(i) =>
             /\ variant = "reposition" =>
                  status' \in {"success", "error"} /\ abortControllerRef' = null
             /\ variant = "subtitles" =>
                  ~isProcessing' /\ status' \in {"Done", "Downloaded", "Error"}
       ]_vars

\* C11 witness: a reposition call ended on an OK body without an array 'cues'.
C11_Witness ==
  /\ variant = "subtitles"
  /\ Len(reqs) = 1 /\ reqs[1].outcome = "error"
  /\ status = "Error"
  /\ error = Str("Unexpected response format from backend.")
  /\ ~isProcessing

\* The latest submit ended in failure or cancellation and no request is pending.
SubmitFailed ==
  /\ reqs # << >>
  /\ PendingRequests = {}
  /\ reqs[Len(reqs)].outcome \in {"error", "canceled"}

\* C12: in the /reposition component the step that ends a submit in failure or
\* cancellation leaves progress 0, and from then on every step other than the
\* start of the next submit leaves progress 0.
C12_ProgressStaysZero ==
  [][ (variant = "reposition" /\ viaUI) =>
        /\ \A i \in Requests :
             (Ends(i) /\ reqs'[i].outcome \in {"error", "canceled"}) => progress' = 0
        /\ (SubmitFailed /\ progress = 0 /\ ~HandlerStep) => progress' = 0
    ]_vars

\* The running interval t fires in this step: it is cleared, or goes on with one
\* more firing counted.
Fires(t) ==
  /\ nTicks' = nTicks + 1
  /\ CopiesIn(t, timers') < CopiesIn(t, timers)

\* C13: every running simulateProgress interval has fired fewer than 15 times (the
\* 15th firing clears it), whatever the outcome of its submit; the progress a
\* firing of the interval (from, to) writes lies between from and to, within
\* 0..100; once no interval runs and no request is pending, progress changes only
\* when a submit starts; and eventually no interval runs any more.
C13_TimersEnd ==
  /\ [](\A t \in BagToSet(timers) : t.count >= 0 /\ t.count < 15)
  /\ [][ \A t \in BagToSet(timers) :
           Fires(t) =>
             /\ progress' >= t.from /\ progress' <= t.to
             /\ progress' >= 0 /\ progress' <= 100
       ]_vars
  /\ [][ (timers = EmptyBag /\ PendingRequests = {} /\ ~HandlerStep) =>
           progress' = progress ]_vars
  /\ <>[](timers = EmptyBag)

\* C13 witness: the submit was cancelled and its interval fired 15 times and
\* cleared itself, leaving progress at its `to`.
C13_Witness ==
  /\ variant = "reposition"
  /\ Len(reqs) = 1 /\ reqs[1].outcome = "canceled"
  /\ timers = EmptyBag
  /\ nTicks = 15
  /\ progress = 60

\* C14: in the /reposition component, while a submit's request stays pending no
\* step (a firing of an interval, the response, a file pick) lowers progress.
C14_ProgressMonotone ==
  [][ (variant = "reposition" /\ viaUI /\ PendingRequests # {}
         /\ PendingRequests' = PendingRequests) =>
        progress' >= progress
    ]_vars

\* C15: in the /reposition component, while a request of handleSubmit is pending
\* the status is 'uploading' or 'processing', so that Cancel is shown and the
\* submit button is disabled.
C15_PendingShowsCancel ==
  (variant = "reposition" /\ viaUI /\ PendingRequests # {}) =>
    /\ status \in {"uploading", "processing"}
    /\ ~(videoFile # null /\ subtitleFile # null
           /\ status # "uploading" /\ status # "processing")

\* C16: in the /reposition/subtitles component isProcessing is true exactly while
\* a reposition or download request is outstanding, at most one request is
\* outstanding at any time, and a request is issued only while isProcessing is
\* false.
C16_OneOutstanding ==
  /\ [](variant = "subtitles" =>
          /\ isProcessing <=> (\E i \in DOMAIN reqs : reqs[i].pc # "done")
          /\ Cardinality({ i \in DOMAIN reqs : reqs[i].pc # "done" }) <= 1)
  /\ [][ (variant = "subtitles" /\ IssuesRequest) => (~isProcessing /\ isProcessing')
       ]_vars

\* C16 witness: a download request is outstanding after a reposition call ended.
C16_Witness ==
  /\ variant = "subtitles"
  /\ isProcessing
  /\ Len(reqs) = 2
  /\ reqs[1].kind = "reposition" /\ reqs[1].pc = "done"
  /\ reqs[2].kind = "download" /\ reqs[2].pc # "done"

\* What Reset leaves: no cues, status 'Idle', progress 0, no error text.
ResetShown == cues = << >> /\ status = "Idle" /\ progress = 0 /\ error = << >>

\* C17: in the /reposition/subtitles component Reset leaves no cues, status
\* 'Idle', progress 0 and no error text, and from then on every step other than
\* the user's next reposition or download action leaves them so.
C17_ResetHolds ==
  [][ (variant = "subtitles" /\ viaUI) =>
        /\ resetState => ResetShown'
        /\ (ResetShown /\ ~HandlerStep) => ResetShown'
    ]_vars

\* C18: in the /reposition/subtitles component a call that ends in failure leaves
\* the stored cues as they were, and whenever status is 'Error' the error text is
\* not empty.
C18_FailureKeepsCues ==
  /\ [](variant = "subtitles" => (status = "Error" => error # << >>))
  /\ [][ variant = "subtitles" =>
           \A i \in Requests :
             (Ends(i) /\ reqs'[i].outcome = "error") =>
               (cues' = cues /\ status' = "Error" /\ error' # << >>)
       ]_vars

\* C18 witness: a reposition call failed on an OK body without an array 'cues'
\* while the cues of an earlier call are stored.
C18_Witness ==
  /\ variant = "subtitles"
  /\ Len(reqs) = 2
  /\ reqs[1].outcome = "cues" /\ reqs[2].outcome = "error"
  /\ cues = << Cue2, Cue1 >>
  /\ status = "Error"
  /\ error = Str("Unexpected response format from backend.")

====
